---- MODULE Spec2Model ----
(***************************************************************************)
(* Model of the cat and user resource controllers of the W2 backend        *)
(* (src/src/api/controllers/catController.ts and the user controller in    *)
(* src/unnamed/part_001).  The two document collections are the state;     *)
(* every controller function is one action that handles one request from   *)
(* validation check to res.json(...) / next(...).                          *)
(*                                                                         *)
(* Documents and request bodies are functions from field names to values,  *)
(* so that an absent field is a field outside the DOMAIN.  The cat fields  *)
(* cat_name, weight and birthdate are plain data that no controller reads  *)
(* or branches on; they are left out of the documents, whose owner,        *)
(* filename and location the controllers do set.                           *)
(***************************************************************************)
EXTENDS Integers, Sequences, FiniteSets, TLC

VARIABLES
    users,       \* the user collection: _id -> document
    cats,        \* the cat collection:  _id -> document
    nextUserId,  \* next fresh _id of the user collection
    nextCatId,   \* next fresh _id of the cat collection
    posted,      \* ids of the user documents created by userPost
    gone,        \* principals of deleted users (their tokens stay valid)
    last         \* the last request handled and its outcome

vars == <<users, cats, nextUserId, nextCatId, posted, gone, last>>

(***************************************************************************)
(* Bounds                                                                  *)
(***************************************************************************)
MaxUsers == 3    \* user ids ever allocated (two seeded, the rest by userPost)
MaxCats == 2     \* cat ids ever allocated
MaxCoord == 2    \* latitudes and longitudes are 0..MaxCoord
MaxSalt == 1     \* salts bcrypt.genSalt can draw

UserIds == 1..MaxUsers
CatIds == 1..MaxCats
Coords == 0..MaxCoord
Salts == 1..MaxSalt

Roles == {"user", "admin"}
Names == {"zed"}
Emails == {"a@x.com"}
Plaintexts == {"secret"}
Filenames == {"cat.jpg"}

(***************************************************************************)
(* Documents                                                               *)
(***************************************************************************)
\* restriction of a function to the fields in F
Restrict(f, F) == [x \in (DOMAIN f) \cap F |-> f[x]]

\* a document with the fields of an update written over it
Merge(doc, upd) ==
    [x \in (DOMAIN doc) \cup (DOMAIN upd) |->
        IF x \in DOMAIN upd THEN upd[x] ELSE doc[x]]

UserFields == {"user_name", "email", "password", "role"}

\* the principal the authentication collaborator attaches for a stored user
\* (LoginUser: the document without its password)
LoginUser(doc) == Restrict(doc, {"_id", "user_name", "email", "role"})

\* res.locals.user when no principal was attached
NoUser == [anonymous |-> TRUE]

Point(lat, lng) == [type |-> "Point", coordinates |-> <<lng, lat>>]
\* the places the geocoding collaborator resolves and clients write
Locations == {Point(2, 1), Point(0, 2)}
Lat(loc) == loc.coordinates[2]
Lng(loc) == loc.coordinates[1]

CatFields == {"owner", "filename", "location"}

\* bcrypt.hash(password, salt): a value that is not the plaintext and that
\* depends on the salt
Hash(password, salt) == <<"$2a$10$", salt>> \o password
PlainPassword(p) == <<p>>

SeedUsers ==
    (1 :> [_id |-> 1, user_name |-> "root", email |-> "root@x.com",
           password |-> Hash(PlainPassword("secret"), 1), role |-> "admin"])
    @@ (2 :> [_id |-> 2, user_name |-> "alice", email |-> "a@x.com",
              password |-> Hash(PlainPassword("secret"), 1), role |-> "user"])

(***************************************************************************)
(* Requests                                                                *)
(***************************************************************************)
\* what the authentication collaborator can attach to res.locals.user
Principals ==
    {NoUser} \cup {LoginUser(users[i]) : i \in DOMAIN users}
             \cup {gone[i] : i \in DOMAIN gone}

\* the aggregated error list of the validation collaborator
ValidationErrors ==
    { <<>>,
      <<[msg |-> "Invalid value", param |-> "id"],
        [msg |-> "Invalid value", param |-> "email"]>> }

\* errors.array().map((error) => `${error.msg}: ${error.param}`).join(', ')
RECURSIVE Messages(_)
Messages(errors) ==
    IF errors = <<>> THEN <<>>
    ELSE LET e == Head(errors)
             rest == Messages(Tail(errors))
         IN  <<e.msg, ": ", e.param>>
             \o (IF rest = <<>> THEN <<>> ELSE <<", ">> \o rest)

CatBodies ==
    { Restrict(full, F) :
        full \in [owner : DOMAIN users, location : Locations],
        F \in SUBSET {"owner", "location"} }

NoBody == [x \in {} |-> 0]

\* the bodies to tell apart for a request with this validation result: a
\* handler that throws on the error list never reads the body
BodiesRead(bodies, errors) == IF errors = <<>> THEN bodies ELSE {NoBody}

UserBodies ==
    { Restrict(full, F) :
        full \in [user_name : Names, email : Emails,
                  password : {PlainPassword(p) : p \in Plaintexts}, role : Roles],
        F \in SUBSET UserFields }

(***************************************************************************)
(* Outcomes                                                                *)
(***************************************************************************)
NoData == [none |-> TRUE]

\* res.json(body): one JSON response, status 200
Json(body) ==
    [json |-> 1, next |-> 0, status |-> 200, message |-> <<>>, data |-> body]

\* next(new CustomError(message, status)): one error for the error responder
NextError(message, status) ==
    [json |-> 0, next |-> 1, status |-> status, message |-> message,
     data |-> NoData]

\* the handler returned without res.json and without next
NoOutcome ==
    [json |-> 0, next |-> 0, status |-> 0, message |-> <<>>, data |-> NoData]

\* catch (error) { next(new CustomError((error as Error).message, 500)) }
Caught(message) == NextError(message, 500)

\* the message of the error the database throws on a query it cannot run
DbFailure == <<"database error">>
\* the message of the TypeError of reading a property of undefined
TypeErrorMsg == <<"Cannot read properties of undefined">>

MessageResponse(message, data) == [message |-> message, data |-> data]

\* the request handled last and its outcome; the body is recorded for the
\* request that creates a cat
Request(op, principal, id, body, errors, out) ==
    [op |-> op, principal |-> principal, id |-> id, body |-> body,
     errors |-> errors, out |-> out]

Init ==
    /\ users = SeedUsers
    /\ cats = [x \in {} |-> 0]
    /\ nextUserId = Cardinality(DOMAIN SeedUsers) + 1
    /\ nextCatId = 1
    /\ posted = {}
    /\ gone = [x \in {} |-> 0]
    /\ last = Request("none", NoUser, 0, NoBody, <<>>, NoOutcome)

(***************************************************************************)
(* Cat controller                                                          *)
(***************************************************************************)
\* .populate('owner'): the owner reference replaced by the user document
\* (null when no such user), restricted to `select` and _id when given
Populate(cat, select) ==
    IF "owner" \notin DOMAIN cat THEN cat
    ELSE [cat EXCEPT !["owner"] =
            IF @ \in DOMAIN users
            THEN Restrict(users[@], select \cup {"_id"})
            ELSE [null |-> TRUE]]

AllUserFields == UserFields \cup {"_id"}

\* the cat documents as an array, in _id order
RECURSIVE AsArray(_, _)
AsArray(coll, ids) ==
    IF ids = {} THEN <<>>
    ELSE LET i == CHOOSE x \in ids : \A y \in ids : x <= y
         IN  <<coll[i]>> \o AsArray(coll, ids \ {i})

catGetByUser(p, errors) ==
    /\ last' = Request("catGetByUser", p, 0, NoBody, errors,
          IF errors # <<>> THEN Caught(Messages(errors))
          ELSE IF p = NoUser THEN Caught(TypeErrorMsg)
          ELSE Json(AsArray([i \in DOMAIN cats |-> Populate(cats[i], AllUserFields)],
                            {i \in DOMAIN cats :
                                "owner" \in DOMAIN cats[i] /\ cats[i].owner = p._id})))
    /\ UNCHANGED <<users, cats, nextUserId, nextCatId, posted, gone>>


(***************************************************************************)
(* Bounding-box query                                                      *)
(***************************************************************************)
Digits == <<"0", "1", "2", "3", "4", "5", "6", "7", "8", "9">>

\* the decimal text of a natural number, as the client writes it
RECURSIVE NumberText(_)
NumberText(n) ==
    IF n < 10 THEN <<Digits[n + 1]>>
    ELSE NumberText(n \div 10) \o <<Digits[(n % 10) + 1]>>

\* the "lat,lng" text of a corner
LatLngString(lat, lng) == NumberText(lat) \o <<",">> \o NumberText(lng)

CornerStrings == {LatLngString(lat, lng) : lat \in Coords, lng \in Coords}

\* String.prototype.split(sep) for a one-character separator
RECURSIVE Split(_, _)
Split(s, sep) ==
    IF \A i \in 1..Len(s) : s[i] # sep THEN <<s>>
    ELSE LET k == CHOOSE i \in 1..Len(s) :
                      s[i] = sep /\ \A j \in 1..(i - 1) : s[j] # sep
         IN  <<SubSeq(s, 1, k - 1)>> \o Split(SubSeq(s, k + 1, Len(s)), sep)

NaN == -1
DigitValue(c) == (CHOOSE d \in 1..10 : Digits[d] = c) - 1
IsDigit(c) == \E d \in 1..10 : Digits[d] = c

\* parseFloat on unsigned decimal text: the value of the leading digits,
\* NaN when there is none
RECURSIVE ParseDigits(_, _)
ParseDigits(s, acc) ==
    IF s = <<>> \/ ~IsDigit(Head(s)) THEN acc
    ELSE ParseDigits(Tail(s), (acc * 10) + DigitValue(Head(s)))

ParseFloat(s) ==
    IF s = <<>> \/ ~IsDigit(Head(s)) THEN NaN ELSE ParseDigits(s, 0)

\* const [a, b] = parts: the element, or undefined (the empty text here,
\* which parseFloat also turns into NaN)
Element(parts, i) == IF i <= Len(parts) THEN parts[i] ELSE <<>>

\* rectangleBounds(topRight, bottomLeft): the GeoJSON polygon of the
\* axis-aligned rectangle with these two corners, positions as <<lng, lat>>
rectangleBounds(topRight, bottomLeft) ==
    [type |-> "Polygon",
     coordinates |-> << << <<bottomLeft.lng, bottomLeft.lat>>,
                           <<bottomLeft.lng, topRight.lat>>,
                           <<topRight.lng, topRight.lat>>,
                           <<topRight.lng, bottomLeft.lat>>,
                           <<bottomLeft.lng, bottomLeft.lat>> >> >>]

\* the arguments catGetByBoundingBox hands to rectangleBounds
boundsArguments(topRight, bottomLeft) ==
    LET tr == Split(topRight, ",")
        bl == Split(bottomLeft, ",")
        trLat == Element(tr, 1)
        trLng == Element(tr, 2)
        blLat == Element(bl, 1)
        blLng == Element(bl, 2)
    IN  [topRight |-> [lng |-> ParseFloat(trLat), lat |-> ParseFloat(trLng)],
         bottomLeft |-> [lat |-> ParseFloat(blLat), lng |-> ParseFloat(blLng)]]

HasNaN(polygon) ==
    \E i \in DOMAIN polygon.coordinates[1] :
        NaN \in {polygon.coordinates[1][i][1], polygon.coordinates[1][i][2]}

\* {location: {$geoWithin: {$geometry: polygon}}} for a rectangle's ring:
\* the point lies in the rectangle the ring's vertices span
geoWithin(loc, polygon) ==
    LET ring == polygon.coordinates[1]
        lngs == {ring[i][1] : i \in DOMAIN ring}
        lats == {ring[i][2] : i \in DOMAIN ring}
    IN  /\ \E a \in lngs : a <= Lng(loc)
        /\ \E b \in lngs : Lng(loc) <= b
        /\ \E a \in lats : a <= Lat(loc)
        /\ \E b \in lats : Lat(loc) <= b

catGetByBoundingBox(topRight, bottomLeft, errors) ==
    /\ last' = Request("catGetByBoundingBox", NoUser, 0,
                       [topRight |-> topRight, bottomLeft |-> bottomLeft], errors,
          IF errors # <<>> THEN Caught(Messages(errors))
          ELSE LET args == boundsArguments(topRight, bottomLeft)
                   bounds == rectangleBounds(args.topRight, args.bottomLeft)
               IN  IF HasNaN(bounds) THEN Caught(DbFailure)
                   ELSE Json(AsArray(cats,
                            {i \in DOMAIN cats :
                                /\ "location" \in DOMAIN cats[i]
                                /\ geoWithin(cats[i].location, bounds)})))
    /\ UNCHANGED <<users, cats, nextUserId, nextCatId, posted, gone>>

(***************************************************************************)
(* Cat mutations and reads by id                                           *)
(***************************************************************************)
catPutAdmin(p, id, body, errors) ==
    LET found == id \in DOMAIN cats
        admin == errors = <<>> /\ p # NoUser /\ p.role = "admin"
        updated == Merge(cats[id], body)
    IN
    /\ cats' = IF admin /\ found
               THEN [cats EXCEPT ![id] = updated] ELSE cats
    /\ last' = Request("catPutAdmin", p, id, NoBody, errors,
          IF errors # <<>> THEN Caught(Messages(errors))
          ELSE IF p = NoUser THEN Caught(TypeErrorMsg)
          ELSE IF p.role = "admin"
               THEN IF ~found THEN NextError(<<"No cat found">>, 404)
                    ELSE Json(MessageResponse("Cat updated",
                              Populate(updated, {"user_name", "email"})))
               ELSE NoOutcome)
    /\ UNCHANGED <<users, nextUserId, nextCatId, posted, gone>>

catDeleteAdmin(p, id, errors) ==
    LET found == id \in DOMAIN cats
        admin == errors = <<>> /\ p # NoUser /\ p.role = "admin"
    IN
    /\ cats' = IF admin /\ found
               THEN [i \in (DOMAIN cats) \ {id} |-> cats[i]] ELSE cats
    /\ last' = Request("catDeleteAdmin", p, id, NoBody, errors,
          IF errors # <<>> THEN Caught(Messages(errors))
          ELSE IF p = NoUser THEN Caught(TypeErrorMsg)
          ELSE IF p.role = "admin"
               THEN IF ~found THEN NextError(<<"No cat found">>, 404)
                    ELSE Json(MessageResponse("Cat deleted",
                              Populate(cats[id], AllUserFields)))
               ELSE NoOutcome)
    /\ UNCHANGED <<users, nextUserId, nextCatId, posted, gone>>

catDelete(p, id, errors) ==
    LET found == id \in DOMAIN cats
    IN
    /\ cats' = IF errors = <<>> /\ found
               THEN [i \in (DOMAIN cats) \ {id} |-> cats[i]] ELSE cats
    /\ last' = Request("catDelete", p, id, NoBody, errors,
          IF errors # <<>> THEN Caught(Messages(errors))
          ELSE IF ~found THEN NextError(<<"No cat found">>, 404)
          ELSE Json(MessageResponse("Cat deleted",
                    Populate(cats[id], AllUserFields))))
    /\ UNCHANGED <<users, nextUserId, nextCatId, posted, gone>>

catPut(p, id, body, errors) ==
    LET found == id \in DOMAIN cats
        updated == Merge(cats[id], body)
    IN
    /\ cats' = IF errors = <<>> /\ found
               THEN [cats EXCEPT ![id] = updated] ELSE cats
    /\ last' = Request("catPut", p, id, NoBody, errors,
          IF errors # <<>> THEN Caught(Messages(errors))
          ELSE IF ~found THEN NextError(<<"No species found">>, 404)
          ELSE Json(MessageResponse("Cat updated",
                    Populate(updated, {"user_name", "email"}))))
    /\ UNCHANGED <<users, nextUserId, nextCatId, posted, gone>>

catGet(id, errors) ==
    /\ last' = Request("catGet", NoUser, id, NoBody, errors,
          IF errors # <<>> THEN Caught(Messages(errors))
          ELSE IF id \notin DOMAIN cats THEN NextError(<<"No cat found">>, 404)
          ELSE Json(Populate(cats[id], AllUserFields)))
    /\ UNCHANGED <<users, cats, nextUserId, nextCatId, posted, gone>>

catListGet ==
    /\ last' = Request("catListGet", NoUser, 0, NoBody, <<>>,
          Json(AsArray([i \in DOMAIN cats |-> Populate(cats[i], AllUserFields)],
                       DOMAIN cats)))
    /\ UNCHANGED <<users, cats, nextUserId, nextCatId, posted, gone>>

\* catPostBody without the owner assignment taking effect on a body that
\* already names an owner
catPostBodyClientOwner(body, p, coords, filename) ==
    Merge([owner |-> p._id],
          Merge(body, [location |-> coords, filename |-> filename]))

\* req.body after the three assignments that precede catModel.create
catPostBody(body, p, coords, filename) ==
    Merge(body, [location |-> coords, owner |-> p._id, filename |-> filename])

catPost(p, body, hasFile, filename, coords, errors) ==
    LET ok == errors = <<>> /\ hasFile /\ p # NoUser
        doc == Merge(Restrict(catPostBody(body, p, coords, filename), CatFields),
                     [_id |-> nextCatId])
    IN
    /\ ok => nextCatId <= MaxCats
    /\ cats' = IF ok THEN Merge(cats, [i \in {nextCatId} |-> doc]) ELSE cats
    /\ nextCatId' = IF ok THEN nextCatId + 1 ELSE nextCatId
    /\ last' = Request("catPost", p, IF ok THEN nextCatId ELSE 0, body, errors,
          IF errors # <<>> THEN Caught(Messages(errors))
          ELSE IF ~hasFile THEN Caught(<<"file not found">>)
          ELSE IF p = NoUser THEN Caught(TypeErrorMsg)
          ELSE Json(MessageResponse("Cat created", Populate(doc, AllUserFields))))
    /\ UNCHANGED <<users, nextUserId, posted, gone>>

CatNext ==
    \/ \E p \in Principals, e \in ValidationErrors :
          catGetByUser(p, e)
    \/ \E p \in Principals, id \in CatIds, e \in ValidationErrors :
          \E body \in BodiesRead(CatBodies, e) : catPutAdmin(p, id, body, e)
    \/ \E p \in Principals, id \in CatIds,
          e \in ValidationErrors :
          catDeleteAdmin(p, id, e)
    \/ \E p \in Principals, id \in CatIds,
          e \in ValidationErrors :
          catDelete(p, id, e)
    \/ \E p \in Principals, id \in CatIds, e \in ValidationErrors :
          \E body \in BodiesRead(CatBodies, e) : catPut(p, id, body, e)
    \/ \E id \in CatIds, e \in ValidationErrors :
          catGet(id, e)
    \/ catListGet
    \/ \E p \in Principals, hasFile \in BOOLEAN, filename \in Filenames,
          coords \in Locations, e \in ValidationErrors :
          \E body \in BodiesRead(CatBodies, e) :
              catPost(p, body, hasFile, filename, coords, e)

SpecCat == Init /\ [][CatNext]_vars

\* the bounding-box query over the collections that catPost and catPut build
BoxNext ==
    \/ \E tr \in CornerStrings, bl \in CornerStrings, e \in ValidationErrors :
          catGetByBoundingBox(tr, bl, e)
    \/ \E p \in Principals, hasFile \in BOOLEAN, filename \in Filenames,
          coords \in Locations, e \in ValidationErrors :
          \E body \in BodiesRead(CatBodies, e) :
              catPost(p, body, hasFile, filename, coords, e)

SpecBox == Init /\ [][BoxNext]_vars


(***************************************************************************)
(* User controller                                                         *)
(***************************************************************************)
\* .select('-role'), .select('-password -role'): the document without the
\* excluded fields
Select(doc, excluded) == Restrict(doc, (DOMAIN doc) \ excluded)

\* validationResult(req.body) in userDeleteCurrent: the body carries no
\* validation context, so the result is empty whatever the request's errors
validationResultOfBody(errors) == <<>>

checkToken(p) ==
    /\ last' = Request("checkToken", p, 0, NoBody, <<>>,
          IF p = NoUser THEN NextError(<<"token not valid">>, 403)
          ELSE Json(Restrict(p, {"_id", "user_name", "email"})))
    /\ UNCHANGED <<users, cats, nextUserId, nextCatId, posted, gone>>

\* the error list is turned into a CustomError that is never thrown
userGet(id, errors) ==
    /\ last' = Request("userGet", NoUser, id, NoBody, errors,
          IF id \notin DOMAIN users THEN NextError(<<"No user found">>, 404)
          ELSE Json(Select(users[id], {"role"})))
    /\ UNCHANGED <<users, cats, nextUserId, nextCatId, posted, gone>>

userListGet ==
    /\ last' = Request("userListGet", NoUser, 0, NoBody, <<>>,
          Json(AsArray([i \in DOMAIN users |-> Select(users[i], {"role"})],
                       DOMAIN users)))
    /\ UNCHANGED <<users, cats, nextUserId, nextCatId, posted, gone>>

\* the document userPost hands to userModel.create
userPostDocument(body, hashPassword) ==
    Merge(body, [password |-> hashPassword, role |-> "user"])

\* the schema's required fields
RequiredUserFields == {"user_name", "email", "password", "role"}

\* the error list is turned into a CustomError that is never thrown
userPost(body, errors, salt) ==
    LET hashable == "password" \in DOMAIN body
        doc == userPostDocument(body, Hash(body.password, salt))
        ok == hashable /\ RequiredUserFields \subseteq DOMAIN doc
        stored == Merge(Restrict(doc, UserFields), [_id |-> nextUserId])
    IN
    /\ ok => nextUserId <= MaxUsers
    /\ users' = IF ok THEN Merge(users, [i \in {nextUserId} |-> stored]) ELSE users
    /\ nextUserId' = IF ok THEN nextUserId + 1 ELSE nextUserId
    /\ posted' = IF ok THEN posted \cup {nextUserId} ELSE posted
    /\ last' = Request("userPost", NoUser, IF ok THEN nextUserId ELSE 0, NoBody, errors,
          IF ~hashable THEN Caught(<<"Illegal arguments: undefined, string">>)
          ELSE IF ~ok THEN Caught(<<"User validation failed">>)
          ELSE Json(MessageResponse("Category created",
                    Restrict(stored, {"user_name", "email"}))))
    /\ UNCHANGED <<cats, nextCatId, gone>>

userPutCurrent(p, body, errors) ==
    LET found == p # NoUser /\ p._id \in DOMAIN users
        ok == errors = <<>> /\ found
        updated == Merge(users[p._id], Restrict(body, UserFields))
    IN
    /\ users' = IF ok THEN [users EXCEPT ![p._id] = updated] ELSE users
    /\ last' = Request("userPutCurrent", p, IF p = NoUser THEN 0 ELSE p._id,
                       NoBody, errors,
          IF errors # <<>> THEN Caught(Messages(errors))
          ELSE IF p = NoUser THEN Caught(TypeErrorMsg)
          ELSE IF ~found THEN Caught(<<"No user found">>)
          ELSE Json(MessageResponse("User updated",
                    Select(updated, {"password", "role"}))))
    /\ UNCHANGED <<cats, nextUserId, nextCatId, posted, gone>>

userDeleteCurrent(p, errors) ==
    LET seen == validationResultOfBody(errors)
        found == p # NoUser /\ p._id \in DOMAIN users
        ok == seen = <<>> /\ found
    IN
    /\ users' = IF ok THEN [i \in (DOMAIN users) \ {p._id} |-> users[i]] ELSE users
    /\ gone' = IF ok THEN Merge(gone, [i \in {p._id} |-> p]) ELSE gone
    /\ last' = Request("userDeleteCurrent", p, IF p = NoUser THEN 0 ELSE p._id,
                       NoBody, errors,
          IF seen # <<>> THEN NextError(Messages(seen), 400)
          ELSE IF p = NoUser THEN NextError(<<"No user found">>, 404)
          ELSE Json(MessageResponse("User deleted",
                    Restrict(p, {"_id", "user_name", "email"}))))
    /\ UNCHANGED <<cats, nextUserId, nextCatId, posted>>

UserNext ==
    \/ \E p \in Principals : checkToken(p)
    \/ \E id \in UserIds, e \in ValidationErrors : userGet(id, e)
    \/ userListGet
    \/ \E body \in UserBodies, e \in ValidationErrors, salt \in Salts :
          userPost(body, e, salt)
    \/ \E p \in Principals, e \in ValidationErrors :
          \E body \in BodiesRead(UserBodies, e) : userPutCurrent(p, body, e)
    \/ \E p \in Principals, e \in ValidationErrors : userDeleteCurrent(p, e)

SpecUser == Init /\ [][UserNext]_vars

\* All handlers together.  The cat handlers write only the cat collection
\* and the user handlers only the user collection, so the properties of one
\* controller are checked under its own specification (SpecCat, SpecBox,
\* SpecUser), whose state space is the factor of this one that they read.
Next == CatNext \/ BoxNext \/ UserNext

Spec == Init /\ [][Next]_vars


(***************************************************************************)
(* Properties                                                              *)
(***************************************************************************)
Authenticated(req) == req.principal # NoUser
PassedValidation(req) == req.errors = <<>>
Forbidden(out) == out.status = 403 /\ out.next = 1 /\ out.json = 0

\* C1: a catPut or catDelete request that passes validation, made by an
\* authenticated principal whose id is not the owner id of the stored cat it
\* names, ends with a Forbidden error and leaves the cat collection as it was.
C1_NonOwnerForbidden ==
    [][ ( /\ last'.op \in {"catPut", "catDelete"}
          /\ PassedValidation(last')
          /\ Authenticated(last')
          /\ last'.id \in DOMAIN cats
          /\ cats[last'.id].owner # last'.principal._id )
        => (Forbidden(last'.out) /\ cats' = cats) ]_vars

\* C2: a catPutAdmin or catDeleteAdmin request that passes validation, made
\* by an authenticated principal whose role is not admin, ends with a
\* Forbidden error and leaves the cat collection as it was.
C2_NonAdminForbidden ==
    [][ ( /\ last'.op \in {"catPutAdmin", "catDeleteAdmin"}
          /\ PassedValidation(last')
          /\ Authenticated(last')
          /\ last'.principal.role # "admin" )
        => (Forbidden(last'.out) /\ cats' = cats) ]_vars

\* C3: every stored user document that userPost created has role 'user',
\* whatever userPost, userPutCurrent and userDeleteCurrent requests were made.
C3_PostedUsersKeepRoleUser ==
    \A id \in posted \cap DOMAIN users : users[id].role = "user"

\* C4: no step that handles the request of an authenticated principal whose
\* role is not admin changes the owner of a stored cat.
C4_OwnerChangedOnlyByAdmin ==
    [][ (Authenticated(last') /\ last'.principal.role # "admin")
        => \A id \in (DOMAIN cats) \cap (DOMAIN cats') :
              cats'[id].owner = cats[id].owner ]_vars

\* C5: after a successful catPost the persisted cat's owner is the id of the
\* principal attached to the request, whatever owner the body carried.
C5_CreatedCatOwnedByPrincipal ==
    (last.op = "catPost" /\ last.out.status = 200)
        => /\ Authenticated(last)
           /\ last.id \in DOMAIN cats
           /\ cats[last.id].owner = last.principal._id

\* C5 witness: a catPost succeeded whose body named another user as owner.
C5_Witness ==
    /\ last.op = "catPost"
    /\ last.out.status = 200
    /\ "owner" \in DOMAIN last.body
    /\ last.body.owner # last.principal._id
    /\ cats[last.id].owner = last.principal._id

\* C6: the response of userGet and of userListGet carries neither the
\* password nor the role of any user document.
C6_NoPasswordNoRoleInUserReads ==
    /\ (last.op = "userGet" /\ last.out.json = 1)
          => (DOMAIN last.out.data) \cap {"password", "role"} = {}
    /\ (last.op = "userListGet" /\ last.out.json = 1)
          => \A i \in DOMAIN last.out.data :
                (DOMAIN last.out.data[i]) \cap {"password", "role"} = {}

\* C7: every handled request has produced exactly one outcome: one JSON
\* response or one error forwarded to the error responder.
C7_ExactlyOneOutcome ==
    last.op # "none" => last.out.json + last.out.next = 1

ChecksValidation ==
    {"catGetByUser", "catGetByBoundingBox", "catPutAdmin", "catDeleteAdmin",
     "catDelete", "catPut", "catGet", "catPost",
     "userGet", "userPost", "userPutCurrent", "userDeleteCurrent"}

\* C8: a request to a handler that checks the validation result, arriving
\* with a non-empty error list, ends with a 400 error and changes neither
\* collection.
C8_ValidationFailureIs400 ==
    [][ (last'.op \in ChecksValidation /\ ~PassedValidation(last'))
        => /\ last'.out.status = 400
           /\ last'.out.next = 1
           /\ last'.out.json = 0
           /\ users' = users
           /\ cats' = cats ]_vars

\* C9: a catGet, userGet or userPutCurrent request that passes validation
\* and whose target document is not in the store ends with a 404 error and
\* no JSON response.
C9_MissingTargetIs404 ==
    ( /\ PassedValidation(last)
      /\ \/ last.op = "catGet" /\ last.id \notin DOMAIN cats
         \/ last.op = "userGet" /\ last.id \notin DOMAIN users
         \/ /\ last.op = "userPutCurrent"
            /\ Authenticated(last)
            /\ last.id \notin DOMAIN users )
    => (last.out.status = 404 /\ last.out.next = 1 /\ last.out.json = 0)

\* a corner text read as (latitude, longitude)
CornerRead(text) ==
    LET parts == Split(text, ",")
    IN  [lat |-> ParseFloat(Element(parts, 1)), lng |-> ParseFloat(Element(parts, 2))]

Between(x, a, b) == (a < x /\ x < b) \/ (b < x /\ x < a)
Beyond(x, a, b) == (x < a /\ x < b) \/ (x > a /\ x > b)

StrictlyInside(loc, c1, c2) ==
    Between(Lat(loc), c1.lat, c2.lat) /\ Between(Lng(loc), c1.lng, c2.lng)
StrictlyOutside(loc, c1, c2) ==
    Beyond(Lat(loc), c1.lat, c2.lat) \/ Beyond(Lng(loc), c1.lng, c2.lng)

\* topRight lies above and to the right of bottomLeft
ProperBox(tr, bl) == bl.lat < tr.lat /\ bl.lng < tr.lng

\* C10: a catGetByBoundingBox request answered with a list, whose topRight
\* corner lies above and to the right of its bottomLeft corner, returns every
\* stored cat strictly inside the rectangle spanned by the two corners, each
\* read as (latitude, longitude), and no cat strictly outside it.
C10_BoundingBoxOfBothCorners ==
    (last.op = "catGetByBoundingBox" /\ last.out.json = 1)
    => LET tr == CornerRead(last.body.topRight)
           bl == CornerRead(last.body.bottomLeft)
           returned == {last.out.data[i]._id : i \in DOMAIN last.out.data}
       IN  ProperBox(tr, bl) =>
           \A id \in DOMAIN cats :
              /\ StrictlyInside(cats[id].location, tr, bl) => id \in returned
              /\ StrictlyOutside(cats[id].location, tr, bl) => id \notin returned

====
